---- MODULE Spec2Model ----
(***************************************************************************)
(* Model of the screenshot-mcp server (v1.2.0 handler of take_screenshot, *)
(* src/unnamed/part_002 lines 368-686).  Strings are sequences of one-     *)
(* character strings, so that path joins, regular-expression replaces and  *)
(* substring tests are computed character by character as the code does.   *)
(***************************************************************************)
EXTENDS Integers, Sequences, FiniteSets, TLC

VARIABLES
    tIn,            \* input of a pure function (pure-function harnesses)
    tOut,           \* result of the first application to tIn
    tBack,          \* result of the second application
    tpc,            \* position of the harness
    cwd,            \* process.cwd() of the server
    windows,        \* top-level windows of the desktop, in Get-Process order
    screens,        \* monitors of the desktop, in the order the OS enumerates them
    dirs,           \* directories that exist on the host filesystem
    files,          \* files that exist on the host filesystem
    pc,             \* per request: where its handler is suspended
    request,        \* per request: request.params (name and arguments)
    filename,       \* per request: const filename
    monitor,        \* per request: const monitor
    screenshotsDir, \* per request: let screenshotsDir
    windowsPath,    \* per request: let windowsPath
    psScript,       \* per request: let psScript
    outputPath,     \* per request: const outputPath of line 643
    proc,           \* per request: the external process and what it did
    outcome,        \* per request: what the handler's promise settled with
    calls           \* per request: how often execAsync and fs.access were called

tvars == <<tIn, tOut, tBack, tpc>>
envvars == <<cwd, windows, screens>>
fsvars == <<dirs, files>>
locals == <<filename, monitor, screenshotsDir, windowsPath, psScript, outputPath>>
hvars == <<pc, request, filename, monitor, screenshotsDir, windowsPath,
           psScript, outputPath, proc, outcome, calls>>
vars == <<tIn, tOut, tBack, tpc, cwd, windows, screens, dirs, files,
          pc, request, filename, monitor, screenshotsDir, windowsPath,
          psScript, outputPath, proc, outcome, calls>>

(***************************************************************************)
(* Characters and strings                                                  *)
(***************************************************************************)
Lower == <<"a","b","c","d","e","f","g","h","i","j","k","l","m",
           "n","o","p","q","r","s","t","u","v","w","x","y","z">>
Upper == <<"A","B","C","D","E","F","G","H","I","J","K","L","M",
           "N","O","P","Q","R","S","T","U","V","W","X","Y","Z">>

IsLower(ch) == \E i \in 1..26 : Lower[i] = ch
IsUpper(ch) == \E i \in 1..26 : Upper[i] = ch
IsLetter(ch) == IsLower(ch) \/ IsUpper(ch)

\* String.prototype.toLowerCase on one character
toLowerCase(ch) ==
    IF IsUpper(ch) THEN Lower[CHOOSE i \in 1..26 : Upper[i] = ch] ELSE ch

\* the letter in upper case
toUpperCase(ch) ==
    IF IsLower(ch) THEN Upper[CHOOSE i \in 1..26 : Lower[i] = ch] ELSE ch

SLASH == "/"
BSLASH == "\\"

\* s.startsWith(p)
startsWith(s, p) == Len(s) >= Len(p) /\ SubSeq(s, 1, Len(p)) = p

\* s.includes(p)
includes(s, p) ==
    \E i \in 0..(Len(s) - Len(p)) : SubSeq(s, i + 1, i + Len(p)) = p

\* s.replace(/c/g, r) for a one-character pattern c and a replacement string r
RECURSIVE replaceAll(_, _, _)
replaceAll(s, c, r) ==
    IF s = <<>> THEN <<>>
    ELSE (IF Head(s) = c THEN r ELSE <<Head(s)>>) \o replaceAll(Tail(s), c, r)

\* s.split(c) for a one-character separator c
RECURSIVE split(_, _)
split(s, c) ==
    IF \A i \in 1..Len(s) : s[i] # c THEN <<s>>
    ELSE LET k == CHOOSE i \in 1..Len(s) :
                       s[i] = c /\ \A j \in 1..(i - 1) : s[j] # c
         IN  <<SubSeq(s, 1, k - 1)>> \o split(SubSeq(s, k + 1, Len(s)), c)

\* segs.join(c)
RECURSIVE joinSegs(_, _)
joinSegs(segs, c) ==
    IF segs = <<>> THEN <<>>
    ELSE IF Len(segs) = 1 THEN segs[1]
    ELSE segs[1] \o <<c>> \o joinSegs(Tail(segs), c)

(***************************************************************************)
(* path (POSIX flavour: the server runs inside WSL)                        *)
(***************************************************************************)
DOT == <<".">>
DOTDOT == <<".", ".">>

\* normalizeString of node's path module: drop empty and "." segments,
\* resolve ".." against the previous segment, keep leading ".." only when
\* the path is relative (allowAboveRoot).
RECURSIVE normalizeSegs(_, _, _)
normalizeSegs(segs, acc, allowAboveRoot) ==
    IF segs = <<>> THEN acc
    ELSE LET s == Head(segs) IN
         IF s = <<>> \/ s = DOT THEN normalizeSegs(Tail(segs), acc, allowAboveRoot)
         ELSE IF s = DOTDOT THEN
              IF acc # <<>> /\ acc[Len(acc)] # DOTDOT
              THEN normalizeSegs(Tail(segs), SubSeq(acc, 1, Len(acc) - 1), allowAboveRoot)
              ELSE IF allowAboveRoot
                   THEN normalizeSegs(Tail(segs), Append(acc, s), allowAboveRoot)
                   ELSE normalizeSegs(Tail(segs), acc, allowAboveRoot)
         ELSE normalizeSegs(Tail(segs), Append(acc, s), allowAboveRoot)

\* (the segments and the kept segments are bound as values, so that each is
\* computed once)
normalizeString(p, allowAboveRoot) ==
    CHOOSE out \in
        { joinSegs(kept, SLASH) :
            kept \in { normalizeSegs(segs, <<>>, allowAboveRoot) :
                         segs \in {split(p, SLASH)} } } : TRUE

\* path.normalize(p)
pathNormalize(p) ==
    IF p = <<>> THEN DOT
    ELSE LET isAbsolute == p[1] = SLASH
             trailing == p[Len(p)] = SLASH
             n0 == normalizeString(p, ~isAbsolute)
             n1 == IF n0 = <<>> /\ ~isAbsolute THEN DOT ELSE n0
             n2 == IF n1 # <<>> /\ trailing THEN n1 \o <<SLASH>> ELSE n1
         IN  IF isAbsolute THEN <<SLASH>> \o n2 ELSE n2

\* path.join(a, b): the non-empty arguments joined by "/" and normalized
pathJoin(a, b) ==
    LET joined == IF a = <<>> THEN b
                  ELSE IF b = <<>> THEN a
                  ELSE a \o <<SLASH>> \o b
    IN  IF joined = <<>> THEN DOT ELSE pathNormalize(joined)

\* path.resolve(...args) in a process whose working directory is wd:
\* arguments are taken right to left until an absolute one is met.
RECURSIVE resolveFrom(_, _)
resolveFrom(args, acc) ==
    IF acc # <<>> /\ acc[1] = SLASH THEN acc
    ELSE IF args = <<>> THEN acc
    ELSE LET a == args[Len(args)]
             rest == SubSeq(args, 1, Len(args) - 1)
         IN  IF a = <<>> THEN resolveFrom(rest, acc)
             ELSE resolveFrom(rest, a \o <<SLASH>> \o acc)

pathResolve(wd, args) ==
    LET raw == resolveFrom(<<wd>> \o args, <<>>)
    IN  <<SLASH>> \o normalizeString(raw, FALSE)

(***************************************************************************)
(* Path translation between the WSL and the Windows dialect                *)
(***************************************************************************)
MNT == <<"/", "m", "n", "t", "/">>

\* customFolder.match(/^[A-Za-z]:\\/)
matchesWindowsPath(s) ==
    Len(s) >= 3 /\ IsLetter(s[1]) /\ s[2] = ":" /\ s[3] = BSLASH

\* the regular expression /^\/mnt\/([a-z])\// matches s
matchesMntDrive(s) ==
    Len(s) >= 7 /\ SubSeq(s, 1, 5) = MNT /\ IsLower(s[6]) /\ s[7] = SLASH

\* s.replace(/^\/mnt\/([a-z])\//, '$1:\\')
replaceMntDrive(s) ==
    IF matchesMntDrive(s)
    THEN <<s[6], ":", BSLASH>> \o SubSeq(s, 8, Len(s))
    ELSE s

\* s.replace(/^\/mnt\/([a-z])\//, '$1:\\').replace(/\//g, '\\')
wslToWindows(s) == replaceAll(replaceMntDrive(s), SLASH, <<BSLASH>>)

\* s.replace(/^[A-Za-z]:/, `/mnt/${driveLetter}`)
replaceDriveLetter(s) ==
    IF Len(s) >= 2 /\ IsLetter(s[1]) /\ s[2] = ":"
    THEN MNT \o <<toLowerCase(s[1])>> \o SubSeq(s, 3, Len(s))
    ELSE s

\* a plausible slip: the backslashes of the Windows path are left in place
windowsToWslNoFlip(s) == replaceDriveLetter(s)

\* customFolder.replace(/^[A-Za-z]:/, `/mnt/${driveLetter}`).replace(/\\/g, '/')
windowsToWsl(s) == replaceAll(replaceDriveLetter(s), BSLASH, <<SLASH>>)

(***************************************************************************)
(* Harness for the two translations as pure functions                      *)
(***************************************************************************)
MaxRestLen == 3

RestChars == {"a", "B", SLASH, BSLASH}

RECURSIVE SeqsUpTo(_, _)
SeqsUpTo(S, n) ==
    IF n = 0 THEN {<<>>}
    ELSE LET shorter == SeqsUpTo(S, n - 1)
         IN  shorter \cup {Append(s, ch) : s \in shorter, ch \in S}

Rests == SeqsUpTo(RestChars, MaxRestLen)

\* /mnt/<lowercase letter>/<rest>
HostPaths == {MNT \o <<l, SLASH>> \o r : l \in {"c", "d"}, r \in Rests}

\* <letter>:\<rest>
ForeignPaths == {<<l, ":", BSLASH>> \o r : l \in {"c", "D"}, r \in Rests}

TInit ==
    /\ tIn \in HostPaths \cup ForeignPaths
    /\ tOut = <<>>
    /\ tBack = <<>>
    /\ tpc = "in"

\* the harness is not in use
TIdle ==
    /\ tIn = <<>>
    /\ tOut = <<>>
    /\ tBack = <<>>
    /\ tpc = "off"

\* host path -> foreign path
HostToForeign ==
    /\ tpc = "in"
    /\ startsWith(tIn, MNT)
    /\ tOut' = wslToWindows(tIn)
    /\ tpc' = "foreign"
    /\ UNCHANGED <<tIn, tBack, envvars, fsvars, hvars>>

\* foreign path -> host path, on a caller-supplied foreign path
ForeignToHost ==
    /\ tpc = "in"
    /\ matchesWindowsPath(tIn)
    /\ tOut' = windowsToWsl(tIn)
    /\ tpc' = "host"
    /\ UNCHANGED <<tIn, tBack, envvars, fsvars, hvars>>

\* foreign path -> host path, on the result of HostToForeign
TranslateBack ==
    /\ tpc = "foreign"
    /\ matchesWindowsPath(tOut)
    /\ tBack' = windowsToWsl(tOut)
    /\ tpc' = "back"
    /\ UNCHANGED <<tIn, tOut, envvars, fsvars, hvars>>

TNext == HostToForeign \/ ForeignToHost \/ TranslateBack

(***************************************************************************)
(* JavaScript values of the request arguments                              *)
(***************************************************************************)
undefined == [t |-> "undefined", s |-> <<>>, n |-> 0]
JSString(s) == [t |-> "string", s |-> s, n |-> 0]
JSNumber(n) == [t |-> "number", s |-> <<>>, n |-> n]

\* ToBoolean(v): undefined, "" and 0 are falsy
truthy(v) == (v.t = "string" /\ v.s # <<>>) \/ (v.t = "number" /\ v.n # 0)

\* v || d
orDefault(v, d) == IF truthy(v) THEN v ELSE d

Digits == <<"0","1","2","3","4","5","6","7","8","9">>

RECURSIVE toDecimal(_)
toDecimal(n) ==
    IF n < 10 THEN <<Digits[n + 1]>>
    ELSE toDecimal(n \div 10) \o <<Digits[(n % 10) + 1]>>

UNDEFINED_TEXT == <<"u","n","d","e","f","i","n","e","d">>

\* `${v}` inside a template literal
template(v) ==
    CASE v.t = "undefined" -> UNDEFINED_TEXT
      [] v.t = "string" -> v.s
      [] v.t = "number" -> IF v.n < 0 THEN <<"-">> \o toDecimal(-v.n)
                           ELSE toDecimal(v.n)

SCREENSHOTS == <<"s","c","r","e","e","n","s","h","o","t","s">>
SCREENSHOT_PNG == <<"s","c","r","e","e","n","s","h","o","t",".","p","n","g">>
ALL == <<"a","l","l">>
PRIMARY == <<"p","r","i","m","a","r","y">>
TAKE_SCREENSHOT == "take_screenshot"

(***************************************************************************)
(* Folder resolution (lines 385-414)                                       *)
(***************************************************************************)
\* path.join(screenshotsDir, filename) (lines 410 and 643)
outputPathOf(dir, fname) == pathJoin(dir, fname)

\* the pair (screenshotsDir, windowsPath) the if/else of lines 389-414 leaves
resolveFolder(customFolder, fname, wd) ==
    IF truthy(customFolder) THEN
        LET cf == customFolder.s IN
        IF matchesWindowsPath(cf) THEN
            [screenshotsDir |-> windowsToWsl(cf),
             windowsPath |-> replaceAll(pathJoin(cf, fname), SLASH, <<BSLASH>>)]
        ELSE IF startsWith(cf, MNT) THEN
            [screenshotsDir |-> cf,
             windowsPath |-> wslToWindows(cf) \o <<BSLASH>> \o fname]
        ELSE
            LET dir == pathResolve(wd, <<cf>>) IN
            [screenshotsDir |-> dir,
             windowsPath |-> pathJoin(wslToWindows(dir), fname)]
    ELSE
        LET dir == pathResolve(wd, <<wd, SCREENSHOTS>>)
            out == outputPathOf(dir, fname)
        IN  [screenshotsDir |-> dir,
             windowsPath |-> IF startsWith(out, MNT)
                             THEN wslToWindows(out)
                             ELSE out]

\* a plausible slip: without a folder the bare file name is shown
successPathNoDefault(customFolder, fname) ==
    IF truthy(customFolder)
    THEN replaceAll(pathJoin(customFolder.s, fname), BSLASH, <<SLASH>>)
    ELSE fname

\* successPath (lines 646-654)
successPathOf(customFolder, fname) ==
    IF truthy(customFolder)
    THEN replaceAll(pathJoin(customFolder.s, fname), BSLASH, <<SLASH>>)
    ELSE SCREENSHOTS \o <<SLASH>> \o fname

\* The v1.1.0 handler (lines 63-79 and 283): it has no folder parameter.
\* The directory it creates, the host path it checks, the foreign path it
\* puts into the script and the path of its success message.
handlerV110(arguments, wd) ==
    LET fname == orDefault(arguments.filename, JSString(SCREENSHOT_PNG)).s
        dir == pathResolve(wd, <<wd, SCREENSHOTS>>)
        out == pathJoin(dir, fname)
    IN  [screenshotsDir |-> dir,
         outputPath |-> out,
         windowsPath |-> IF startsWith(out, MNT)
                         THEN replaceAll(replaceMntDrive(out), SLASH, <<BSLASH>>)
                         ELSE out,
         successPath |-> SCREENSHOTS \o <<SLASH>> \o fname]

(***************************************************************************)
(* The generated script (lines 420-614): the branch of the template that   *)
(* was rendered and the text interpolated into it.                         *)
(***************************************************************************)
\* windowsPath.replace(/\\/g, '\\\\') between the quotes of $bitmap.Save('...')
savePathLiteral(wp) == replaceAll(wp, BSLASH, <<BSLASH, BSLASH>>)

buildScript(windowTitle, processName, mon, wp) ==
    IF truthy(windowTitle) \/ truthy(processName) THEN
        [branch |-> "window", windowTitle |-> template(windowTitle),
         processName |-> template(processName), monitor |-> <<>>,
         savePath |-> savePathLiteral(wp)]
    ELSE IF mon = JSString(ALL) THEN
        [branch |-> "all", windowTitle |-> <<>>, processName |-> <<>>,
         monitor |-> <<>>, savePath |-> savePathLiteral(wp)]
    ELSE
        [branch |-> "monitor", windowTitle |-> <<>>, processName |-> <<>>,
         monitor |-> template(mon), savePath |-> savePathLiteral(wp)]

noScript == [branch |-> "none", windowTitle |-> <<>>, processName |-> <<>>,
             monitor |-> <<>>, savePath |-> <<>>]

(***************************************************************************)
(* What the script does when the external engine runs it                   *)
(***************************************************************************)
NO_WINDOW_TITLE == <<"N","o"," ","w","i","n","d","o","w"," ","f","o","u","n","d"," ","w","i","t","h"," ","t","i","t","l","e"," ","c","o","n","t","a","i","n","i","n","g",":"," ">>
NO_WINDOW_PROCESS == <<"N","o"," ","w","i","n","d","o","w"," ","f","o","u","n","d"," ","f","o","r"," ","p","r","o","c","e","s","s",":"," ">>
DOT_EXE == <<".","e","x","e">>
MONITOR_ == <<"M","o","n","i","t","o","r"," ">>
NOT_FOUND_AVAILABLE == <<" ","n","o","t"," ","f","o","u","n","d","."," ","A","v","a","i","l","a","b","l","e"," ","m","o","n","i","t","o","r","s",":"," ","1"," ","t","o"," ">>
INVALID_MONITOR == <<"I","n","v","a","l","i","d"," ","m","o","n","i","t","o","r"," ","p","a","r","a","m","e","t","e","r",":"," ">>
WINDOW_SAVED_1 == <<"S","c","r","e","e","n","s","h","o","t"," ","o","f"," ","w","i","n","d","o","w"," ","'">>
PROCESS_SAVED_1 == <<"S","c","r","e","e","n","s","h","o","t"," ","o","f"," ","p","r","o","c","e","s","s"," ","'">>
SAVED_2 == <<"'"," ","s","a","v","e","d"," ","s","u","c","c","e","s","s","f","u","l","l","y">>
ALL_SAVED == <<"S","c","r","e","e","n","s","h","o","t"," ","s","a","v","e","d"," ","s","u","c","c","e","s","s","f","u","l","l","y">>
MONITOR_SAVED_1 == <<"S","c","r","e","e","n","s","h","o","t"," ","o","f"," ","m","o","n","i","t","o","r"," ">>
MONITOR_SAVED_2 == <<" ","s","a","v","e","d"," ","s","u","c","c","e","s","s","f","u","l","l","y">>
AVAILABLE_WINDOWS == <<"A","v","a","i","l","a","b","l","e"," ","w","i","n","d","o","w","s",":">>
AVAILABLE_MONITORS == <<"A","v","a","i","l","a","b","l","e"," ","m","o","n","i","t","o","r","s",":">>

RECURSIVE lowerAll(_)
lowerAll(s) == IF s = <<>> THEN <<>> ELSE <<toLowerCase(Head(s))>> \o lowerAll(Tail(s))

\* $x -like "*term*": case-insensitive substring match
like(x, term) == includes(lowerAll(x), lowerAll(term))

\* 'a' -eq 'b' on strings: case-insensitive equality
eqIgnoreCase(a, b) == lowerAll(a) = lowerAll(b)

\* "...".Replace(sub, ""): every occurrence of sub is removed, case-sensitively
RECURSIVE removeAll(_, _)
removeAll(s, sub) ==
    IF Len(s) < Len(sub) THEN s
    ELSE IF SubSeq(s, 1, Len(sub)) = sub
         THEN removeAll(SubSeq(s, Len(sub) + 1, Len(s)), sub)
         ELSE <<Head(s)>> \o removeAll(Tail(s), sub)

\* seq | Where-Object { test }
\* $screens | Sort-Object { $_.Bounds.X }
RECURSIVE insertByX(_, _)
insertByX(sorted, sc) ==
    IF sorted = <<>> THEN <<sc>>
    ELSE IF sc.x < Head(sorted).x THEN <<sc>> \o sorted
    ELSE <<Head(sorted)>> \o insertByX(Tail(sorted), sc)

\* a plausible slip: the monitors are taken in the order of enumeration
sortByEnumeration(scs) == scs

RECURSIVE sortByX(_)
sortByX(scs) ==
    IF scs = <<>> THEN <<>>
    ELSE insertByX(sortByX(SubSeq(scs, 1, Len(scs) - 1)), scs[Len(scs)])

\* '...' -match '^\d+$'
allDigits(s) ==
    s # <<>> /\ \A i \in 1..Len(s) : \E d \in 1..10 : Digits[d] = s[i]

\* [int]'...'
RECURSIVE toInt(_)
toInt(s) ==
    IF s = <<>> THEN 0
    ELSE 10 * toInt(SubSeq(s, 1, Len(s) - 1))
         + ((CHOOSE d \in 1..10 : Digits[d] = s[Len(s)]) - 1)

noRun == [filterBy |-> "none", searchTerm |-> <<>>, matched |-> <<>>,
          thrown |-> FALSE, message |-> <<>>, statusLine |-> <<>>,
          target |-> <<>>]

\* a plausible slip: the error of the search by title leaves out the term
searchByTitleUnnamed(script, allWindows) ==
    LET byTitle(w) == like(w.title, script.windowTitle)
        found == SelectSeq(allWindows, byTitle)
    IN  [filterBy |-> "title", searchTerm |-> script.windowTitle,
         matched |-> found, thrown |-> found = <<>>,
         message |-> IF found = <<>> THEN NO_WINDOW_TITLE ELSE <<>>,
         statusLine |-> <<>>,
         target |-> IF found = <<>> THEN <<>> ELSE found[1].title]

\* lines 477-482: the search by title
searchByTitle(script, allWindows) ==
    LET byTitle(w) == like(w.title, script.windowTitle)
        found == SelectSeq(allWindows, byTitle)
    IN  [filterBy |-> "title", searchTerm |-> script.windowTitle,
         matched |-> found, thrown |-> found = <<>>,
         message |-> IF found = <<>>
                     THEN NO_WINDOW_TITLE \o script.windowTitle ELSE <<>>,
         statusLine |-> <<>>,
         target |-> IF found = <<>> THEN <<>> ELSE found[1].title]

\* a plausible slip: the name is searched for as it was given
searchProcessKept(processName) == processName

\* line 485: $searchProcess = "${processName}".Replace(".exe", "")
searchProcessOf(processName) == removeAll(processName, DOT_EXE)

\* lines 483-490: the search by process name
searchByProcess(script, allWindows) ==
    LET searchProcess == searchProcessOf(script.processName)
        byProcess(w) == like(w.process, searchProcess)
        found == SelectSeq(allWindows, byProcess)
    IN  [filterBy |-> "process", searchTerm |-> searchProcess,
         matched |-> found, thrown |-> found = <<>>,
         message |-> IF found = <<>>
                     THEN NO_WINDOW_PROCESS \o script.processName ELSE <<>>,
         statusLine |-> <<>>,
         target |-> IF found = <<>> THEN <<>> ELSE found[1].title]

\* lines 522-526: the status line of the window branch
windowStatus(script) ==
    IF script.windowTitle # <<>>
    THEN WINDOW_SAVED_1 \o script.windowTitle \o SAVED_2
    ELSE PROCESS_SAVED_1 \o script.processName \o SAVED_2

\* a plausible slip: the process name is tested before the window title
runWindowProcessFirst(script, wins) ==
    LET titled(w) == w.title # <<>>
        allWindows == SelectSeq(wins, titled)
        search == IF script.processName # <<>>
                  THEN searchByProcess(script, allWindows)
                  ELSE IF script.windowTitle # <<>>
                  THEN searchByTitle(script, allWindows)
                  ELSE noRun
    IN  [search EXCEPT !.statusLine =
            IF script.processName # <<>>
            THEN PROCESS_SAVED_1 \o script.processName \o SAVED_2
            ELSE WINDOW_SAVED_1 \o script.windowTitle \o SAVED_2]

\* lines 471-526: the window branch
runWindow(script, wins) ==
    LET titled(w) == w.title # <<>>
        allWindows == SelectSeq(wins, titled)
        search == IF script.windowTitle # <<>>
                  THEN searchByTitle(script, allWindows)
                  ELSE IF script.processName # <<>>
                  THEN searchByProcess(script, allWindows)
                  ELSE noRun
    IN  [search EXCEPT !.statusLine = windowStatus(script)]

\* lines 573-612: the monitor selection of the monitor branch
runMonitor(script, scs) ==
    LET sortedScreens == sortByX(scs)
        count == Len(sortedScreens)
        status == MONITOR_SAVED_1 \o script.monitor \o MONITOR_SAVED_2
        base == [noRun EXCEPT !.searchTerm = script.monitor, !.statusLine = status]
    IN  IF eqIgnoreCase(script.monitor, PRIMARY) THEN
            LET isPrimary(sc) == sc.primary
            IN  [base EXCEPT !.target = SelectSeq(scs, isPrimary)[1].name]
        ELSE IF allDigits(script.monitor) THEN
            LET index == toInt(script.monitor) - 1
            IN  IF index >= 0 /\ index < count
                THEN [base EXCEPT !.target = sortedScreens[index + 1].name]
                ELSE [base EXCEPT !.thrown = TRUE,
                         !.message = MONITOR_ \o script.monitor
                                     \o NOT_FOUND_AVAILABLE \o toDecimal(count)]
        ELSE [base EXCEPT !.thrown = TRUE,
                 !.message = INVALID_MONITOR \o script.monitor]

\* lines 473-474: Write-Host of the windows that have a title
RECURSIVE windowLines(_)
windowLines(allWindows) ==
    IF allWindows = <<>> THEN <<>>
    ELSE << <<" ", " ", "-", " ">> \o Head(allWindows).title
              \o <<" ", "(", "Process: ">> \o Head(allWindows).process \o <<")">> >>
         \o windowLines(Tail(allWindows))

\* lines 580-584: Write-Host of the monitors, left to right
monitorLines(sortedScreens) ==
    [i \in 1..Len(sortedScreens) |->
        <<"  Monitor ">> \o toDecimal(i) \o <<": ", sortedScreens[i].name,
          " - Bounds: X=">> \o template(JSNumber(sortedScreens[i].x))
          \o <<" - Primary: ", sortedScreens[i].primary>>]

\* what the script writes with Write-Host until it ends or throws
stdoutOf(script, run, wins, scs) ==
    LET titled(w) == w.title # <<>>
        listing ==
            CASE script.branch = "window" ->
                     <<AVAILABLE_WINDOWS>> \o windowLines(SelectSeq(wins, titled))
                         \o (IF ~run.thrown THEN <<>>
                             ELSE IF run.filterBy = "title"
                             THEN << <<"Search term: '">> \o script.windowTitle \o <<"'">> >>
                             ELSE << <<"Search process: '">> \o script.processName \o <<"'">> >>)
              [] script.branch = "monitor" ->
                     <<AVAILABLE_MONITORS>> \o monitorLines(sortByX(scs))
                         \o (IF run.thrown THEN <<>>
                             ELSE << <<"Capturing monitor ">> \o script.monitor
                                       \o <<" - Bounds: ", run.target>> >>)
              [] OTHER -> <<>>
    IN  IF run.thrown THEN listing ELSE Append(listing, run.statusLine)

\* the script as a whole, up to the point where it saves the image
runScript(script, wins, scs) ==
    CASE script.branch = "window" -> runWindow(script, wins)
      [] script.branch = "monitor" -> runMonitor(script, scs)
      [] OTHER -> [noRun EXCEPT !.statusLine = ALL_SAVED]

(***************************************************************************)
(* Harness for the search term of a process name as a pure function        *)
(***************************************************************************)
MaxNameLen == 5

NameChars == {".", "e", "x", "E", "X", "n"}

ProcessNames == SeqsUpTo(NameChars, MaxNameLen)

SInit ==
    /\ tIn \in ProcessNames
    /\ tOut = <<>>
    /\ tBack = <<>>
    /\ tpc = "name"

\* the search term of the name as given
SearchTermOfName ==
    /\ tpc = "name"
    /\ tOut' = searchProcessOf(tIn)
    /\ tpc' = "term"
    /\ UNCHANGED <<tIn, tBack, envvars, fsvars, hvars>>

\* the search term of the name followed by ".exe"
SearchTermOfNameExe ==
    /\ tpc = "term"
    /\ tBack' = searchProcessOf(tIn \o DOT_EXE)
    /\ tpc' = "both"
    /\ UNCHANGED <<tIn, tOut, envvars, fsvars, hvars>>

SNext == SearchTermOfName \/ SearchTermOfNameExe

(***************************************************************************)
(* Harness for the rectangle of a window capture as a pure function        *)
(***************************************************************************)
MaxCoord == 3

\* $padding = 10 (line 501)
PADDING == 10

\* a plausible slip: the padded corner is not clamped
padRectUnclamped(rect) ==
    [Left |-> rect.Left - PADDING,
     Top |-> rect.Top - PADDING,
     Right |-> rect.Right + PADDING,
     Bottom |-> rect.Bottom + PADDING]

\* lines 502-505: the rectangle of GetWindowRect, padded; [Math]::Max(0, x)
padRect(rect) ==
    LET max0(x) == IF x > 0 THEN x ELSE 0
    IN  [Left |-> max0(rect.Left - PADDING),
         Top |-> max0(rect.Top - PADDING),
         Right |-> rect.Right + PADDING,
         Bottom |-> rect.Bottom + PADDING]

\* lines 502-517: the rectangle CopyFromScreen reads and the size of the bitmap
captureOf(rect) ==
    LET padded == padRect(rect)
    IN  [rect |-> padded,
         width |-> padded.Right - padded.Left,
         height |-> padded.Bottom - padded.Top]

\* rectangles GetWindowRect can give: screen coordinates in steps of 5 on
\* both sides of the origin of the primary monitor, Right >= Left and
\* Bottom >= Top
Rects ==
    LET coords == {5 * i : i \in (-MaxCoord)..MaxCoord}
    IN  { [Left |-> l, Top |-> t, Right |-> r, Bottom |-> b] :
              l \in coords, t \in coords,
              r \in coords, b \in coords }

RInit ==
    /\ tIn \in {w \in Rects : w.Right >= w.Left /\ w.Bottom >= w.Top}
    /\ tOut = <<>>
    /\ tBack = <<>>
    /\ tpc = "rect"

\* lines 496-517 for the window that was found
CaptureWindow ==
    /\ tpc = "rect"
    /\ tOut' = captureOf(tIn)
    /\ tpc' = "captured"
    /\ UNCHANGED <<tIn, tBack, envvars, fsvars, hvars>>

(***************************************************************************)
(* Host filesystem, external process and the texts they produce            *)
(***************************************************************************)
THROW == <<"t","h","r","o","w">>
EXCEPTION == <<"E","x","c","e","p","t","i","o","n">>
NOT_FOUND == <<"n","o","t"," ","f","o","u","n","d">>
ERROR == <<"E","r","r","o","r">>
ERROR_ID == <<"E","r","r","o","r","I","d">>
COMMAND_FAILED == <<"C","o","m","m","a","n","d"," ","f","a","i","l","e","d",":"," ">>
ENOENT_ACCESS == <<"E","N","O","E","N","T",":"," ","n","o"," ","s","u","c","h"," ","f","i","l","e"," ","o","r"," ","d","i","r","e","c","t","o","r","y",","," ","a","c","c","e","s","s"," ">>
EACCES_MKDIR == <<"E","A","C","C","E","S",":"," ","p","e","r","m","i","s","s","i","o","n"," ","d","e","n","i","e","d",","," ","m","k","d","i","r"," ">>
SAVED_TO == <<"S","c","r","e","e","n","s","h","o","t"," ","s","a","v","e","d"," ","s","u","c","c","e","s","s","f","u","l","l","y"," ","t","o",":"," ">>
FAILED_TO == <<"F","a","i","l","e","d"," ","t","o"," ","t","a","k","e"," ","s","c","r","e","e","n","s","h","o","t",":"," ">>
UNKNOWN_TOOL == <<"U","n","k","n","o","w","n"," ","t","o","o","l",":"," ">>
CLIXML_NOISE == <<"#","<"," ","C","L","I","X","M","L"," ","P","r","e","p","a","r","i","n","g"," ","m","o","d","u","l","e","s"," ","f","o","r"," ","f","i","r","s","t"," ","u","s","e",".">>
TYPE_DATA_NOISE == <<"E","r","r","o","r"," ","l","o","a","d","i","n","g"," ","t","h","e"," ","e","x","t","e","n","d","e","d"," ","t","y","p","e"," ","d","a","t","a"," ","f","i","l","e",".">>
ERRORID_NOISE == <<"V","E","R","B","O","S","E",":"," ","F","u","l","l","y","Q","u","a","l","i","f","i","e","d","E","r","r","o","r","I","d"," ",":"," ","N","a","t","i","v","e","C","o","m","m","a","n","d","E","r","r","o","r">>
RECORD_DECORATION == <<" ","+"," ","C","a","t","e","g","o","r","y","I","n","f","o"," ",":"," ","O","p","e","r","a","t","i","o","n","S","t","o","p","p","e","d",":"," ","R","u","n","t","i","m","e","E","x","c","e","p","t","i","o","n"," ","+"," ","F","u","l","l","y","Q","u","a","l","i","f","i","e","d","E","r","r","o","r","I","d">>
SAVE_EXCEPTION == <<"E","x","c","e","p","t","i","o","n"," ","c","a","l","l","i","n","g"," ","\"","S","a","v","e","\""," ","w","i","t","h"," ","\"","2","\""," ","a","r","g","u","m","e","n","t","(","s",")",":"," ","\"","A"," ","g","e","n","e","r","i","c"," ","e","r","r","o","r"," ","o","c","c","u","r","r","e","d"," ","i","n"," ","G","D","I","+",".","\"">>
SHELL_NOT_FOUND == <<"/","b","i","n","/","s","h",":"," ","1",":"," ","p","o","w","e","r","s","h","e","l","l",".","e","x","e",":"," ","n","o","t"," ","f","o","u","n","d">>
MNT_C_WINDOWS == <<"/","m","n","t","/","c","/","W","i","n","d","o","w","s">>
NEWLINE == "\n"
COMMAND == "powershell.exe -ExecutionPolicy Bypass -OutputFormat Text -EncodedCommand ..."

\* the directory and all its parents, as mkdir(dir, { recursive: true }) makes them
ancestors(dir) ==
    LET segs == normalizeSegs(split(dir, SLASH), <<>>, FALSE)
    IN  {<<SLASH>> \o joinSegs(SubSeq(segs, 1, k), SLASH) : k \in 0..Len(segs)}

\* path.dirname of an absolute path
dirname(p) ==
    LET segs == normalizeSegs(split(p, SLASH), <<>>, FALSE)
    IN  <<SLASH>> \o joinSegs(SubSeq(segs, 1, Len(segs) - 1), SLASH)

\* a plausible slip: the existence check is skipped
accessAlways(p, fs, ds) == TRUE

\* fs.access(p) resolves: something exists at p
accessSucceeds(p, fs, ds) == p \in fs \/ p \in ds

\* working directory of the external engine: that of the server when it lies
\* on a mounted drive, the Windows directory otherwise
engineDir(wd) ==
    IF matchesMntDrive(wd \o <<SLASH>>) THEN wd ELSE MNT_C_WINDOWS

\* Host path of the file the engine writes for the literal of $bitmap.Save:
\* both separators count, repeated separators collapse, <letter>:\ is the
\* drive mounted at /mnt/<letter>, a path without drive letter is taken
\* from the engine's working drive or directory.
landingPath(lit, wd) ==
    LET w == replaceAll(lit, BSLASH, <<SLASH>>)
        relTo(base, rest) == pathResolve(base, <<DOT \o <<SLASH>> \o rest>>)
    IN  IF Len(w) >= 2 /\ IsLetter(w[1]) /\ w[2] = ":"
        THEN relTo(MNT \o <<toLowerCase(w[1])>>, SubSeq(w, 3, Len(w)))
        ELSE IF w # <<>> /\ w[1] = SLASH
        THEN relTo(SubSeq(engineDir(wd), 1, 6), w)
        ELSE relTo(engineDir(wd), w)

\* a plausible slip: "Error" counts whether or not "ErrorId" is there
hasRealErrorAnyError(stderr) ==
    /\ stderr # <<>>
    /\ \/ includes(stderr, THROW)
       \/ includes(stderr, EXCEPTION)
       \/ includes(stderr, NOT_FOUND)
       \/ includes(stderr, ERROR)

\* lines 627-632
hasRealError(stderr) ==
    /\ stderr # <<>>
    /\ \/ includes(stderr, THROW)
       \/ includes(stderr, EXCEPTION)
       \/ includes(stderr, NOT_FOUND)
       \/ (includes(stderr, ERROR) /\ ~includes(stderr, ERROR_ID))

\* a plausible slip: the output of the script is added to the message
thrownMessageWithStdout(p) == p.stderr \o <<NEWLINE>> \o joinSegs(p.stdout, NEWLINE)

\* line 639: throw new Error(stderr)
thrownMessage(p) == p.stderr

noProc == [state |-> "none", ran |-> FALSE, code |-> 0, stdout |-> <<>>,
           stderr |-> <<>>, run |-> noRun, saved |-> FALSE, landing |-> <<>>]

\* the calls a request has made, and (a history of the interleaving) the
\* requests that were waiting for their process when this one arrived
noCalls == [exec |-> 0, access |-> 0, began |-> {}]

\* a plausible slip: the call is made a second time
callMadeTwice(c, r, what) == [c EXCEPT ![r][what] = @ + 2]

\* a plausible slip: the count is kept for the server, not for the request
callMadeByAll(c, r, what) == [q \in DOMAIN c |-> [c[q] EXCEPT ![what] = @ + 1]]

\* one more call of execAsync (line 620) or fs.access (line 644)
callMade(c, r, what) == [c EXCEPT ![r][what] = @ + 1]

\* a plausible slip: a timeout settles the call while the process runs
settledOrTimedOut(p) == p.state \in {"running", "exited"}

\* the promise of execAsync settles when the process has exited (no
\* timeout option is passed at line 620)
settled(p) == p.state = "exited"

\* a plausible slip: the exit status is not looked at
execNeverRejects(p) == FALSE

\* the promise of execAsync rejects: the process could not be run by the
\* shell or exited with a non-zero status
execRejects(p) == p.code # 0

noOutcome == [kind |-> "none", content |-> <<>>, isError |-> FALSE,
              error |-> <<>>, accessed |-> "no"]

\* return { content: [{ type: 'text', text }] } (lines 656-663)
successResponse(path) ==
    [kind |-> "response",
     content |-> <<[type |-> "text", text |-> SAVED_TO \o path]>>,
     isError |-> FALSE, error |-> <<>>, accessed |-> "ok"]

\* a plausible slip: the catch block leaves out isError
failureResponseUnflagged(message, accessed) ==
    [kind |-> "response",
     content |-> <<[type |-> "text", text |-> FAILED_TO \o message]>>,
     isError |-> FALSE, error |-> message, accessed |-> accessed]

\* the catch block (lines 664-674)
failureResponse(message, accessed) ==
    [kind |-> "response",
     content |-> <<[type |-> "text", text |-> FAILED_TO \o message]>>,
     isError |-> TRUE, error |-> message, accessed |-> accessed]

\* lines 677-685
unknownToolResponse(name) ==
    [kind |-> "response",
     content |-> <<[type |-> "text", text |-> UNKNOWN_TOOL \o <<name>>]>>,
     isError |-> TRUE, error |-> <<>>, accessed |-> "no"]

\* the promise of the handler rejects: the error leaves the handler
rejection(message) ==
    [kind |-> "rejected", content |-> <<>>, isError |-> FALSE,
     error |-> message, accessed |-> "no"]

(***************************************************************************)
(* Inputs                                                                  *)
(***************************************************************************)
Slots == {1, 2}

Cwds == { <<"/","h","/","u">>,
          <<"/","m","n","t","/","c","/","p">>,
          <<"/","m","n","t","/","w","s","l","/","p">> }

FilenameArgs ==
    { undefined, JSString(<<>>), JSString(<<"f">>),
      JSString(<<".",".","/","f">>), JSString(<<"a","/","f">>) }

FolderArgs ==
    { undefined, JSString(<<>>),
      JSString(<<"C",":","\\","a">>), JSString(<<"d",":","\\","a","\\">>),
      JSString(<<"/","m","n","t","/","c","/","a">>),
      JSString(<<"/","m","n","t","/","c","/","a","/">>),
      JSString(<<"/","m","n","t","/","c">>),
      JSString(<<"/","m","n","t","/","w","s","l">>),
      JSString(<<"a">>), JSString(<<".",".","/","a">>),
      JSString(<<"/","h","/","a">>) }

WindowTitleArgs ==
    { undefined, JSString(<<>>), JSString(<<"a","b">>), JSString(<<"z","z">>) }

ProcessNameArgs ==
    { undefined, JSString(<<>>), JSString(<<"N","P">>),
      JSString(<<"n","p",".","e","x","e">>), JSString(<<"z","z">>) }

MonitorArgs ==
    { undefined, JSString(<<>>), JSString(ALL), JSString(PRIMARY),
      JSString(<<"2">>), JSString(<<"0">>), JSString(<<"a","b","c">>),
      JSNumber(0), JSNumber(1), JSNumber(3), JSNumber(-1) }

Arguments(fn, mon, wt, pn, fo) ==
    [filename |-> fn, monitor |-> mon, windowTitle |-> wt,
     processName |-> pn, folder |-> fo]

\* every destination with four capture targets, every capture target with
\* the default destination
ArgumentSets ==
    { Arguments(fn, mon, wt, undefined, fo) :
          fn \in FilenameArgs, fo \in FolderArgs,
          mon \in {undefined, JSNumber(1)},
          wt \in {undefined, JSString(<<"a","b">>)} }
    \cup
    { Arguments(JSString(<<"f">>), mon, wt, pn, undefined) :
          mon \in MonitorArgs, wt \in WindowTitleArgs, pn \in ProcessNameArgs }

Requests ==
    { [name |-> TAKE_SCREENSHOT, arguments |-> a] : a \in ArgumentSets }
    \cup { [name |-> "list_windows", arguments |-> Arguments(undefined,
                undefined, undefined, undefined, undefined)] }

noRequest == [name |-> "", arguments |-> Arguments(undefined, undefined,
                                             undefined, undefined, undefined)]

Window(title, process) == [title |-> title, process |-> process]
Screen(name, x, primary) == [name |-> name, x |-> x, primary |-> primary]

Desktops ==
    { [windows |-> <<>>,
       screens |-> <<Screen("DISPLAY1", 0, TRUE)>>],
      [windows |-> << Window(<<"A","b"," ","x">>, <<"e","d">>),
                      Window(<<"N","o","t","e">>, <<"n","p">>) >>,
       screens |-> << Screen("DISPLAY1", 0, TRUE),
                      Screen("DISPLAY2", -1920, FALSE) >>] }

StderrNoise == { <<>>, CLIXML_NOISE, ERRORID_NOISE, TYPE_DATA_NOISE }

\* the engine prints a raised error as an error record: the message, then
\* the category and the identifier of the record
RecordDecorations == { RECORD_DECORATION }
ExitCodes == { 0, 1 }

(***************************************************************************)
(* The request handler (lines 368-686), one action per stretch of code     *)
(* between two awaits, and the external process                            *)
(***************************************************************************)
HInit ==
    /\ cwd \in Cwds
    /\ \E d \in Desktops : windows = d.windows /\ screens = d.screens
    /\ dirs = ancestors(cwd) \cup ancestors(MNT_C_WINDOWS)
                \cup ancestors(<<"/","m","n","t","/","d">>)
    /\ files = {}
    /\ pc = [r \in Slots |-> "idle"]
    /\ request = [r \in Slots |-> noRequest]
    /\ filename = [r \in Slots |-> <<>>]
    /\ monitor = [r \in Slots |-> undefined]
    /\ screenshotsDir = [r \in Slots |-> <<>>]
    /\ windowsPath = [r \in Slots |-> <<>>]
    /\ psScript = [r \in Slots |-> noScript]
    /\ outputPath = [r \in Slots |-> <<>>]
    /\ proc = [r \in Slots |-> noProc]
    /\ outcome = [r \in Slots |-> noOutcome]
    /\ calls = [r \in Slots |-> noCalls]

\* request q is suspended at "await execAsync" (line 620)
inFlight(q) == pc[q] = "exec" /\ proc[q].state = "running"

\* lines 369-417: the arguments are read, the folder is resolved and
\* fs.mkdir is called
TakeScreenshotOf(r, reqs) ==
    /\ pc[r] = "idle"
    /\ \E req \in reqs :
        /\ req.name = TAKE_SCREENSHOT
        /\ LET fname == orDefault(req.arguments.filename, JSString(SCREENSHOT_PNG)).s
               dest == resolveFolder(req.arguments.folder, fname, cwd)
           IN  /\ request' = [request EXCEPT ![r] = req]
               /\ filename' = [filename EXCEPT ![r] = fname]
               /\ monitor' = [monitor EXCEPT ![r] =
                                 orDefault(req.arguments.monitor, JSString(ALL))]
               /\ screenshotsDir' = [screenshotsDir EXCEPT ![r] = dest.screenshotsDir]
               /\ windowsPath' = [windowsPath EXCEPT ![r] = dest.windowsPath]
    /\ calls' = [calls EXCEPT ![r].began = {q \in Slots : inFlight(q)}]
    /\ pc' = [pc EXCEPT ![r] = "mkdir"]
    /\ UNCHANGED <<psScript, outputPath, proc, outcome, envvars, fsvars, tvars>>

\* the handler on any request a caller can send
TakeScreenshot(r) == TakeScreenshotOf(r, Requests)

\* lines 677-685: any other tool name
UnknownTool(r) ==
    /\ pc[r] = "idle"
    /\ \E req \in Requests :
        /\ req.name # TAKE_SCREENSHOT
        /\ request' = [request EXCEPT ![r] = req]
        /\ outcome' = [outcome EXCEPT ![r] = unknownToolResponse(req.name)]
    /\ pc' = [pc EXCEPT ![r] = "done"]
    /\ UNCHANGED <<locals, proc, calls, envvars, fsvars, tvars>>

\* line 417 resolves, then lines 419-622: the script is built and the
\* external process is started
MkdirResolves(r) ==
    /\ pc[r] = "mkdir"
    /\ dirs' = dirs \cup ancestors(screenshotsDir[r])
    /\ psScript' = [psScript EXCEPT ![r] =
                       buildScript(request[r].arguments.windowTitle,
                                   request[r].arguments.processName,
                                   monitor[r], windowsPath[r])]
    /\ proc' = [proc EXCEPT ![r] = [noProc EXCEPT !.state = "running"]]
    /\ calls' = callMade(calls, r, "exec")
    /\ pc' = [pc EXCEPT ![r] = "exec"]
    /\ UNCHANGED <<request, filename, monitor, screenshotsDir, windowsPath,
                   outputPath, outcome, files, envvars, tvars>>

\* line 417 rejects: the await is outside the try block, the error leaves
\* the handler
MkdirRejects(r) ==
    /\ pc[r] = "mkdir"
    /\ outcome' = [outcome EXCEPT ![r] =
                      rejection(EACCES_MKDIR \o screenshotsDir[r])]
    /\ pc' = [pc EXCEPT ![r] = "done"]
    /\ UNCHANGED <<request, locals, proc, calls, envvars, fsvars, tvars>>

\* the external process cannot be started
LaunchFails(r) ==
    /\ pc[r] = "exec"
    /\ proc[r].state = "running"
    /\ proc' = [proc EXCEPT ![r] = [noProc EXCEPT !.state = "exited",
                   !.code = 127, !.stderr = SHELL_NOT_FOUND]]
    /\ UNCHANGED <<pc, request, locals, outcome, calls, envvars, fsvars, tvars>>

\* the external engine runs the script and exits
ProcessExits(r) ==
    /\ pc[r] = "exec"
    /\ proc[r].state = "running"
    /\ \E code \in ExitCodes, noise \in StderrNoise,
          deco \in RecordDecorations, saveOk \in BOOLEAN :
        LET run == runScript(psScript[r], windows, screens)
            landing == landingPath(psScript[r].savePath, cwd)
            canSave == saveOk /\ dirname(landing) \in dirs
            saved == ~run.thrown /\ canSave
            errors == IF run.thrown THEN run.message \o deco
                      ELSE IF ~canSave THEN SAVE_EXCEPTION
                      ELSE <<>>
        IN  /\ (run.thrown => saveOk)
            /\ proc' = [proc EXCEPT ![r] =
                   [state |-> "exited", ran |-> TRUE, code |-> code,
                    stdout |-> stdoutOf(psScript[r], run, windows, screens),
                    stderr |-> noise \o errors,
                    run |-> run, saved |-> saved, landing |-> landing]]
            /\ files' = IF saved THEN files \cup {landing} ELSE files
    /\ UNCHANGED <<pc, request, locals, outcome, calls, dirs, envvars, tvars>>

\* lines 620-644: execAsync settles; on a rejection or a real error the
\* catch block answers, otherwise fs.access is called
ExecSettles(r) ==
    /\ pc[r] = "exec"
    /\ settled(proc[r])
    /\ IF execRejects(proc[r]) THEN
           /\ outcome' = [outcome EXCEPT ![r] =
                  failureResponse(COMMAND_FAILED \o <<COMMAND, NEWLINE>>
                                    \o proc[r].stderr, "no")]
           /\ pc' = [pc EXCEPT ![r] = "done"]
           /\ UNCHANGED <<outputPath, calls>>
       ELSE IF hasRealError(proc[r].stderr) THEN
           /\ outcome' = [outcome EXCEPT ![r] =
                  failureResponse(thrownMessage(proc[r]), "no")]
           /\ pc' = [pc EXCEPT ![r] = "done"]
           /\ UNCHANGED <<outputPath, calls>>
       ELSE
           /\ outputPath' = [outputPath EXCEPT ![r] =
                  outputPathOf(screenshotsDir[r], filename[r])]
           /\ calls' = callMade(calls, r, "access")
           /\ pc' = [pc EXCEPT ![r] = "access"]
           /\ UNCHANGED outcome
    /\ UNCHANGED <<request, filename, monitor, screenshotsDir, windowsPath,
                   psScript, proc, envvars, fsvars, tvars>>

\* line 644 resolves, lines 646-663 answer
AccessResolves(r) ==
    /\ pc[r] = "access"
    /\ accessSucceeds(outputPath[r], files, dirs)
    /\ outcome' = [outcome EXCEPT ![r] =
           successResponse(successPathOf(request[r].arguments.folder, filename[r]))]
    /\ pc' = [pc EXCEPT ![r] = "done"]
    /\ UNCHANGED <<request, locals, proc, calls, envvars, fsvars, tvars>>

\* line 644 rejects, the catch block answers
AccessRejects(r) ==
    /\ pc[r] = "access"
    /\ ~accessSucceeds(outputPath[r], files, dirs)
    /\ outcome' = [outcome EXCEPT ![r] =
           failureResponse(ENOENT_ACCESS \o <<"'">> \o outputPath[r] \o <<"'">>,
                           "failed")]
    /\ pc' = [pc EXCEPT ![r] = "done"]
    /\ UNCHANGED <<request, locals, proc, calls, envvars, fsvars, tvars>>

Init == TIdle /\ HInit

Next ==
    \/ TakeScreenshot(1)
    \/ UnknownTool(1)
    \/ MkdirResolves(1)
    \/ MkdirRejects(1)
    \/ LaunchFails(1)
    \/ ProcessExits(1)
    \/ ExecSettles(1)
    \/ AccessResolves(1)
    \/ AccessRejects(1)

Spec == Init /\ [][Next]_vars

\* The continuation of an await runs once the awaited promise has settled:
\* after the process has exited the handler goes on, and fs.access always
\* settles.  Nothing makes the external process exit.
FairInit ==
    /\ Init
    /\ cwd = <<"/","m","n","t","/","c","/","p">>
    /\ windows # <<>>

\* the requests of the runs whose progress is followed: with and without a
\* folder, with and without a window search, and one whose file is looked
\* for where the engine did not save it
FairRequests ==
    { [name |-> TAKE_SCREENSHOT,
       arguments |-> Arguments(d[1], undefined, wt, undefined, d[2])] :
          wt \in {undefined, JSString(<<"a","b">>)},
          d \in { <<JSString(<<"f">>), undefined>>,
                  <<JSString(<<"f">>), JSString(<<"C",":","\\","a">>)>>,
                  <<JSString(<<".",".","/","f">>), JSString(<<"/","h","/","a">>)>> } }

FairNext ==
    \/ TakeScreenshotOf(1, FairRequests)
    \/ UnknownTool(1)
    \/ MkdirResolves(1)
    \/ MkdirRejects(1)
    \/ LaunchFails(1)
    \/ ProcessExits(1)
    \/ ExecSettles(1)
    \/ AccessResolves(1)
    \/ AccessRejects(1)

FairSpec ==
    /\ FairInit
    /\ [][FairNext]_vars
    /\ WF_vars(ExecSettles(1))
    /\ WF_vars(AccessResolves(1))
    /\ WF_vars(AccessRejects(1))

\* Two invocations of the handler in one server process: the event loop
\* interleaves them at their awaits.  The requests are the default folder, a
\* /mnt/ folder and the drive-letter form of the same folder, the last two
\* with a file name that leaves the folder.
ConcurrentRequests ==
    { [name |-> TAKE_SCREENSHOT,
       arguments |-> Arguments(d[1], undefined, undefined, undefined, d[2])] :
          d \in { <<JSString(<<"f">>), undefined>>,
                  <<JSString(<<".",".","/","f">>),
                    JSString(<<"/","m","n","t","/","c","/","a">>)>>,
                  <<JSString(<<".",".","/","f">>),
                    JSString(<<"C",":","\\","a">>)>> } }

ConcurrentInit ==
    /\ Init
    /\ cwd = <<"/","m","n","t","/","c","/","p">>
    /\ windows # <<>>

ConcurrentNext ==
    \E r \in Slots :
        \/ TakeScreenshotOf(r, ConcurrentRequests)
        \/ UnknownTool(r)
        \/ MkdirResolves(r)
        \/ MkdirRejects(r)
        \/ LaunchFails(r)
        \/ ProcessExits(r)
        \/ ExecSettles(r)
        \/ AccessResolves(r)
        \/ AccessRejects(r)

ConcurrentSpec == ConcurrentInit /\ [][ConcurrentNext]_vars

\* Two requests one after the other: the second one arrives when the first
\* one has been answered.
SequentialNext ==
    \/ \/ TakeScreenshotOf(1, ConcurrentRequests)
       \/ UnknownTool(1)
       \/ MkdirResolves(1)
       \/ MkdirRejects(1)
       \/ LaunchFails(1)
       \/ ProcessExits(1)
       \/ ExecSettles(1)
       \/ AccessResolves(1)
       \/ AccessRejects(1)
    \/ /\ pc[1] = "done"
       /\ \/ TakeScreenshotOf(2, ConcurrentRequests)
          \/ UnknownTool(2)
          \/ MkdirResolves(2)
          \/ MkdirRejects(2)
          \/ LaunchFails(2)
          \/ ProcessExits(2)
          \/ ExecSettles(2)
          \/ AccessResolves(2)
          \/ AccessRejects(2)

SequentialSpec == ConcurrentInit /\ [][SequentialNext]_vars

\* the rectangle of a window capture on its own, on a desktop with windows
RectInit ==
    /\ RInit
    /\ HInit
    /\ cwd = <<"/","h","/","u">>
    /\ windows # <<>>

RectSpec == RectInit /\ [][CaptureWindow]_vars

\* the two translations on their own
TranslateInit ==
    /\ TInit
    /\ HInit
    /\ cwd = <<"/","h","/","u">>
    /\ windows = <<>>

TranslateSpec == TranslateInit /\ [][TNext]_vars

\* the search term of a process name on its own, on a desktop with windows
SearchTermInit ==
    /\ SInit
    /\ HInit
    /\ cwd = <<"/","h","/","u">>
    /\ windows # <<>>

SearchTermSpec == SearchTermInit /\ [][SNext]_vars

(***************************************************************************)
(* Properties                                                              *)
(***************************************************************************)
IsTakeScreenshot(r) == request[r].name = TAKE_SCREENSHOT
Responded(r) == outcome[r].kind = "response"
Succeeded(r) == IsTakeScreenshot(r) /\ Responded(r) /\ ~outcome[r].isError

\* the real-failure test as the specification words it
RealFailureMarkers(stderr) ==
    \/ includes(stderr, THROW)
    \/ includes(stderr, EXCEPTION)
    \/ includes(stderr, NOT_FOUND)
    \/ (includes(stderr, ERROR) /\ ~includes(stderr, ERROR_ID))

\* hostPath: the destination directory joined with the file name
HostPath(r) == pathJoin(screenshotsDir[r], filename[r])

\* the external call returned without error and nothing in the diagnostic
\* stream is a real failure
BelievedSuccess(r) ==
    /\ proc[r].state = "exited"
    /\ proc[r].code = 0
    /\ ~RealFailureMarkers(proc[r].stderr)

\* C1: a take_screenshot request answers with the success response only if
\* the external call returned without error, the diagnostic stream holds no
\* real failure and the file exists at hostPath; when the file is absent
\* after a believed-success run the answer is a failure.
C1_SuccessOnlyWhenVerified ==
    \A r \in Slots :
        /\ Succeeded(r) =>
              /\ BelievedSuccess(r)
              /\ (HostPath(r) \in files \/ HostPath(r) \in dirs)
        /\ (/\ IsTakeScreenshot(r)
            /\ pc[r] = "done"
            /\ BelievedSuccess(r)
            /\ HostPath(r) \notin files
            /\ HostPath(r) \notin dirs) =>
              (Responded(r) /\ outcome[r].isError)

\* C1 witness: a success response after a run that saved the file
C1_Witness ==
    \E r \in Slots : Succeeded(r) /\ proc[r].saved /\ HostPath(r) \in files

\* some stage of the request failed
RequestFailed(r) ==
    \/ outcome[r].kind = "rejected"
    \/ (proc[r].state = "exited" /\ ~BelievedSuccess(r))
    \/ (pc[r] = "done" /\ BelievedSuccess(r)
          /\ HostPath(r) \notin files /\ HostPath(r) \notin dirs)

\* C2 (as claimed): every failure of a take_screenshot request ends it with
\* the error-flagged text "Failed to take screenshot: <message>", and no
\* error leaves the handler.
C2_EveryFailureAnswered ==
    \A r \in Slots :
        (IsTakeScreenshot(r) /\ pc[r] = "done" /\ RequestFailed(r)) =>
            /\ Responded(r)
            /\ outcome[r].isError
            /\ Len(outcome[r].content) = 1
            /\ startsWith(outcome[r].content[1].text, FAILED_TO)

\* C2, the case it fails in: the directory could not be created and the
\* request is over
C2_MkdirFailureSeen ==
    \E r \in Slots : pc[r] = "done" /\ outcome[r].kind = "rejected"

Args(r) == request[r].arguments

\* title contains term, letter case ignored
ContainsIgnoringCase(title, term) ==
    \E i \in 1..(Len(title) + 1) : \E j \in (i - 1)..Len(title) :
        /\ j - i + 1 = Len(term)
        /\ \A k \in 1..Len(term) :
               toLowerCase(title[i + k - 1]) = toLowerCase(term[k])

TitleMatch(w, term) == ContainsIgnoringCase(w.title, term)

BothGiven(r) == truthy(Args(r).windowTitle) /\ truthy(Args(r).processName)

\* C3: with both windowTitle and processName non-empty the request uses the
\* WindowByTitle strategy with windowTitle as the search term: the windows
\* are filtered by title only, whatever processName is, and the zero-match
\* error and the status line name the title.
C3_TitleTakesPrecedence ==
    \A r \in Slots :
        (IsTakeScreenshot(r) /\ BothGiven(r)) =>
            LET T == Args(r).windowTitle.s
                byTitle(w) == TitleMatch(w, T)
            IN  /\ psScript[r].branch # "none" =>
                      /\ psScript[r].branch = "window"
                      /\ psScript[r].windowTitle = T
                /\ proc[r].ran =>
                      /\ proc[r].run.filterBy = "title"
                      /\ proc[r].run.searchTerm = T
                      /\ proc[r].run.matched = SelectSeq(windows, byTitle)
                      /\ proc[r].run.matched = <<>> =>
                            /\ proc[r].run.thrown
                            /\ proc[r].run.message = NO_WINDOW_TITLE \o T
                            /\ includes(proc[r].stderr, NO_WINDOW_TITLE \o T)
                      /\ proc[r].run.matched # <<>> =>
                            /\ ~proc[r].run.thrown
                            /\ proc[r].run.statusLine
                                  = WINDOW_SAVED_1 \o T \o SAVED_2
                            /\ proc[r].stdout[Len(proc[r].stdout)]
                                  = WINDOW_SAVED_1 \o T \o SAVED_2

\* C3 witness: both given, the title matches a window whose process name
\* does not contain processName, and that window is captured
C3_Witness ==
    \E r \in Slots :
        /\ IsTakeScreenshot(r) /\ BothGiven(r) /\ proc[r].ran
        /\ proc[r].run.matched # <<>>
        /\ \A i \in 1..Len(windows) :
               ~ContainsIgnoringCase(windows[i].process, Args(r).processName.s)

ProcessOnly(r) == truthy(Args(r).processName) /\ ~truthy(Args(r).windowTitle)

\* C4 (as claimed): with processName non-empty and windowTitle empty or not
\* supplied the script filters the windows by process name, never by title,
\* and a zero-match failure names the process.
C4_ProcessOnlyFiltersByProcess ==
    \A r \in Slots :
        (IsTakeScreenshot(r) /\ ProcessOnly(r) /\ proc[r].ran) =>
            /\ proc[r].run.filterBy = "process"
            /\ proc[r].run.thrown =>
                  proc[r].run.message = NO_WINDOW_PROCESS \o Args(r).processName.s

NoWindowSearch(r) ==
    ~truthy(Args(r).windowTitle) /\ ~truthy(Args(r).processName)

MonitorAbsentOrAll(r) ==
    Args(r).monitor = undefined \/ Args(r).monitor = JSString(ALL)

\* C5 (as claimed): with neither windowTitle nor processName non-empty the
\* strategy is AllMonitors exactly when monitor is absent or "all", and
\* Monitor(selector) for every other supplied monitor value.
C5_AllMonitorsIffAbsentOrAll ==
    \A r \in Slots :
        (IsTakeScreenshot(r) /\ NoWindowSearch(r) /\ psScript[r].branch # "none") =>
            /\ MonitorAbsentOrAll(r) => psScript[r].branch = "all"
            /\ ~MonitorAbsentOrAll(r) =>
                  /\ psScript[r].branch = "monitor"
                  /\ psScript[r].monitor = template(Args(r).monitor)

\* C6: every take_screenshot response is one text item; on success it is
\* "Screenshot saved successfully to: <displayPath>" without the error flag,
\* on failure "Failed to take screenshot: <message>" with the error flag,
\* and the flag is set exactly when the request failed.
C6_ResponseShape ==
    \A r \in Slots :
        (IsTakeScreenshot(r) /\ Responded(r)) =>
            /\ Len(outcome[r].content) = 1
            /\ outcome[r].content[1].type = "text"
            /\ outcome[r].isError <=> RequestFailed(r)
            /\ outcome[r].isError =>
                  /\ startsWith(outcome[r].content[1].text, FAILED_TO)
                  /\ outcome[r].content[1].text = FAILED_TO \o outcome[r].error
            /\ ~outcome[r].isError =>
                  /\ startsWith(outcome[r].content[1].text, SAVED_TO)
                  /\ Args(r).folder = undefined =>
                        outcome[r].content[1].text
                            = SAVED_TO \o SCREENSHOTS \o <<SLASH>> \o filename[r]

\* C6 witness: a failure response and its error flag
C6_Witness ==
    \E r \in Slots :
        /\ IsTakeScreenshot(r) /\ Responded(r) /\ outcome[r].isError
        /\ proc[r].ran /\ proc[r].code = 0 /\ RequestFailed(r)

NoFolder(r) == Args(r).folder = undefined

DefaultHostPath(r) == cwd \o <<SLASH>> \o SCREENSHOTS \o <<SLASH>> \o filename[r]
DefaultDisplayPath(r) == SCREENSHOTS \o <<SLASH>> \o filename[r]

\* no segment of the name is empty, "." or ".."
PlainName(fname) ==
    LET segs == split(fname, SLASH)
    IN  \A i \in 1..Len(segs) : segs[i] # <<>> /\ segs[i] # DOT /\ segs[i] # DOTDOT

\* C7 (as claimed): without a folder parameter, for any filename, the host
\* path of the existence check is "<cwd>/screenshots/<filename>" and the
\* path of the success message is "screenshots/<filename>".
C7_DefaultDestinationAnyName ==
    \A r \in Slots :
        (IsTakeScreenshot(r) /\ NoFolder(r)) =>
            /\ outputPath[r] # <<>> => outputPath[r] = DefaultHostPath(r)
            /\ Succeeded(r) =>
                  outcome[r].content[1].text = SAVED_TO \o DefaultDisplayPath(r)

\* C7 (amended): the host path is "<cwd>/screenshots/<filename>" when no
\* segment of the filename is empty, "." or ".."; the path of the success
\* message is "screenshots/<filename>" for any filename.
C7_DefaultDestination ==
    \A r \in Slots :
        (IsTakeScreenshot(r) /\ NoFolder(r)) =>
            /\ (outputPath[r] # <<>> /\ PlainName(filename[r])) =>
                  outputPath[r] = DefaultHostPath(r)
            /\ Succeeded(r) =>
                  outcome[r].content[1].text = SAVED_TO \o DefaultDisplayPath(r)

\* C7 witness: a success without folder parameter, after the existence
\* check of "<cwd>/screenshots/<filename>"
C7_Witness ==
    \E r \in Slots :
        /\ IsTakeScreenshot(r) /\ NoFolder(r) /\ Succeeded(r)
        /\ PlainName(filename[r])
        /\ outputPath[r] = DefaultHostPath(r)

\* p has the form /mnt/<lowercase letter>/<rest>
InConvention(p) ==
    /\ Len(p) >= 7
    /\ \A i \in 1..5 : p[i] = MNT[i]
    /\ IsLower(p[6])
    /\ p[7] = SLASH

\* p has the form <letter>:\<rest>
IsForeign(p) == Len(p) >= 3 /\ IsLetter(p[1]) /\ p[2] = ":" /\ p[3] = BSLASH

\* s with every a turned into b
Flip(s, a, b) == [i \in 1..Len(s) |-> IF s[i] = a THEN b ELSE s[i]]

\* C8 (as claimed): host-to-foreign maps /mnt/<lowercase letter>/<rest> to
\* <the letter in uppercase>:\<rest, slashes turned into backslashes>, and
\* foreign-to-host maps <letter>:\<rest> to /mnt/<lowercase letter>/<rest,
\* backslashes turned into slashes>.
C8_TranslationBothWays ==
    /\ (tpc = "foreign" /\ InConvention(tIn)) =>
          tOut = <<toUpperCase(tIn[6]), ":", BSLASH>>
                   \o Flip(SubSeq(tIn, 8, Len(tIn)), SLASH, BSLASH)
    /\ (tpc = "host" /\ IsForeign(tIn)) =>
          tOut = MNT \o <<toLowerCase(tIn[1]), SLASH>>
                   \o Flip(SubSeq(tIn, 4, Len(tIn)), BSLASH, SLASH)

\* C9 (as claimed): for every p of the form /mnt/<letter>/<rest>, with rest
\* any sequence of path characters, translating p to the foreign dialect
\* and back gives p.
C9_RoundTripAnyRest ==
    (tpc = "back" /\ InConvention(tIn)) => tBack = tIn

\* C9 (amended): the round trip gives p when rest holds no backslash
C9_RoundTrip ==
    (/\ tpc = "back"
     /\ InConvention(tIn)
     /\ \A i \in 8..Len(tIn) : tIn[i] # BSLASH) => tBack = tIn

\* C9 witness: a path with a directory separator in rest went there and back
C9_Witness ==
    /\ tpc = "back"
    /\ InConvention(tIn)
    /\ \A i \in 8..Len(tIn) : tIn[i] # BSLASH
    /\ \E i \in 8..Len(tIn) : tIn[i] = SLASH
    /\ tBack = tIn

\* C10 (as claimed): when the host path is outside the mounted-drive
\* convention, the foreign path embedded in the script equals the host path
\* character for character.
C10_OutsideConventionUnchanged ==
    \A r \in Slots :
        (/\ IsTakeScreenshot(r)
         /\ psScript[r].branch # "none"
         /\ ~InConvention(HostPath(r))) =>
            psScript[r].savePath = HostPath(r)

HasFolder(r) == truthy(Args(r).folder)

\* folder and name put together with the separator sep, none added when the
\* folder already ends with one
Joined(folder, sep, fname) ==
    IF folder[Len(folder)] = sep THEN folder \o fname
    ELSE folder \o <<sep>> \o fname

\* the text after "Screenshot saved successfully to: "
DisplayPath(r) ==
    SubSeq(outcome[r].content[1].text, Len(SAVED_TO) + 1,
           Len(outcome[r].content[1].text))

\* C11 (as claimed): with a folder parameter the path of the success message
\* keeps the dialect of the folder: a drive-letter folder is shown as the
\* folder text, a backslash and the file name, a host folder as the folder
\* text, a slash and the file name.
C11_DisplayKeepsDialect ==
    \A r \in Slots :
        (IsTakeScreenshot(r) /\ HasFolder(r) /\ Succeeded(r)
            /\ PlainName(filename[r])) =>
            DisplayPath(r) =
                IF IsForeign(Args(r).folder.s)
                THEN Joined(Args(r).folder.s, BSLASH, filename[r])
                ELSE Joined(Args(r).folder.s, SLASH, filename[r])

\* the executor has been invoked for the request
ExecutorInvoked(r) == proc[r].state # "none"

\* C12 (as claimed): when the executor is invoked the directory part of
\* hostPath exists, for any folder and any filename; when creating the
\* directory fails the executor is never invoked.
C12_DirectoryBeforeExecutor ==
    \A r \in Slots :
        IsTakeScreenshot(r) =>
            /\ ExecutorInvoked(r) => dirname(HostPath(r)) \in dirs
            /\ outcome[r].kind = "rejected" => ~ExecutorInvoked(r)

\* the windows whose process name contains term, letter case ignored
MatchedByProcess(term) ==
    LET byProcess(w) == ContainsIgnoringCase(w.process, term)
    IN  SelectSeq(windows, byProcess)

\* C13: for every process name n that does not contain ".exe", the search
\* term of n followed by ".exe" is the search term of n, and both match the
\* same windows.
C13_ExeSuffixSameTerm ==
    (tpc = "both" /\ ~includes(tIn, DOT_EXE)) =>
        /\ tBack = tOut
        /\ MatchedByProcess(tBack) = MatchedByProcess(tOut)

\* C13 witness: a name without ".exe" that matches a window, with and
\* without the suffix
C13_Witness ==
    /\ tpc = "both"
    /\ tIn # <<>>
    /\ ~includes(tIn, DOT_EXE)
    /\ tBack = tIn
    /\ MatchedByProcess(tBack) # <<>>
    /\ MatchedByProcess(tBack) # windows

DOT_EXE_UPPER == <<".", "E", "X", "E">>

\* name without one trailing ".exe" or ".EXE"
WithoutTrailingExe(name) ==
    IF Len(name) >= 4
       /\ SubSeq(name, Len(name) - 3, Len(name)) \in {DOT_EXE, DOT_EXE_UPPER}
    THEN SubSeq(name, 1, Len(name) - 4)
    ELSE name

\* C14 (as claimed): the search term is the process name with one trailing
\* ".exe" or ".EXE" removed and every other character left unchanged.
C14_OnlyTrailingSuffixStripped ==
    tpc # "name" => tOut = WithoutTrailingExe(tIn)

\* the request ran the script of the Monitor strategy
MonitorStrategyRan(r) ==
    IsTakeScreenshot(r) /\ psScript[r].branch = "monitor" /\ proc[r].ran

\* position in the enumeration of the N-th monitor from the left
NthFromLeft(N) ==
    CHOOSE i \in 1..Len(screens) :
        Cardinality({j \in 1..Len(screens) : screens[j].x < screens[i].x}) = N - 1

\* the selector is the integer N, as a number or in decimal digits
SelectsNumber(r, N) ==
    Args(r).monitor = JSNumber(N) \/ Args(r).monitor = JSString(toDecimal(N))

\* C15: in the Monitor strategy an integer selector N with 1 <= N <= number
\* of monitors selects the N-th monitor in ascending order of horizontal
\* origin, whatever the order of enumeration; "primary" selects the primary
\* monitor of the OS whatever its position.
C15_MonitorSelection ==
    \A r \in Slots :
        MonitorStrategyRan(r) =>
            /\ \A N \in 1..Len(screens) :
                  SelectsNumber(r, N) =>
                      /\ ~proc[r].run.thrown
                      /\ proc[r].run.target = screens[NthFromLeft(N)].name
            /\ Args(r).monitor = JSString(PRIMARY) =>
                  /\ ~proc[r].run.thrown
                  /\ \E i \in 1..Len(screens) :
                        /\ screens[i].primary
                        /\ proc[r].run.target = screens[i].name

\* C15 witness: selector 1 took the leftmost monitor, which the OS
\* enumerates second and which is not the primary one
C15_Witness ==
    \E r \in Slots :
        /\ MonitorStrategyRan(r)
        /\ Args(r).monitor = JSNumber(1)
        /\ Len(screens) = 2
        /\ proc[r].run.target = screens[2].name
        /\ ~screens[2].primary
        /\ screens[2].x < screens[1].x

\* the text of the response
ResponseText(r) == outcome[r].content[1].text

\* the request is over and its script was run by the engine
RanAndDone(r) == IsTakeScreenshot(r) /\ pc[r] = "done" /\ proc[r].ran

\* "Available monitors: 1 to <count>"
RangeText(count) ==
    <<"A","v","a","i","l","a","b","l","e"," ","m","o","n","i","t","o","r","s",":"," ","1"," ","t","o"," ">>
        \o toDecimal(count)

\* the monitor parameter is an integer, as a number or in decimal digits
IntegerSelector(r) ==
    \/ Args(r).monitor.t = "number"
    \/ (Args(r).monitor.t = "string" /\ allDigits(Args(r).monitor.s))

SelectorValue(r) ==
    IF Args(r).monitor.t = "number" THEN Args(r).monitor.n
    ELSE toInt(Args(r).monitor.s)

\* C16 (as claimed): an integer monitor selector outside 1..count, 0
\* included, ends the request in a failure response whose message contains
\* "Available monitors: 1 to <count>", and no image is saved.
C16_OutOfRangeNamesRange ==
    \A r \in Slots :
        (/\ RanAndDone(r)
         /\ NoWindowSearch(r)
         /\ IntegerSelector(r)
         /\ SelectorValue(r) \notin 1..Len(screens)) =>
            /\ Responded(r)
            /\ outcome[r].isError
            /\ includes(ResponseText(r), RangeText(Len(screens)))
            /\ ~proc[r].saved

\* the monitor parameter is supplied and is neither "all", nor "primary",
\* nor a string of decimal digits
UnknownSelector(r) ==
    /\ Args(r).monitor # undefined
    /\ template(Args(r).monitor) # ALL
    /\ template(Args(r).monitor) # PRIMARY
    /\ ~allDigits(template(Args(r).monitor))

\* C17 (as claimed): a monitor selector that is neither "all", nor
\* "primary", nor a string of decimal digits ends the request in a failure
\* response whose message names the valid monitor range.
C17_UnknownSelectorNamesRange ==
    \A r \in Slots :
        (RanAndDone(r) /\ NoWindowSearch(r) /\ UnknownSelector(r)) =>
            /\ Responded(r)
            /\ outcome[r].isError
            /\ includes(ResponseText(r), RangeText(Len(screens)))

\* the external process exited normally and the handler went on
ExitedNormally(r) ==
    /\ IsTakeScreenshot(r)
    /\ proc[r].state = "exited"
    /\ proc[r].code = 0
    /\ pc[r] \in {"access", "done"}

\* the handler took the outcome for a real failure: it answered with the
\* diagnostic stream as the message, without looking for the file
ClassifiedRealFailure(r) ==
    /\ pc[r] = "done"
    /\ Responded(r)
    /\ outcome[r].isError
    /\ outcome[r].accessed = "no"
    /\ ResponseText(r) = FAILED_TO \o proc[r].stderr

\* the handler went on to the existence check
WentOnToCheck(r) == pc[r] = "access" \/ outcome[r].accessed \in {"ok", "failed"}

\* C18: when the external process exits normally the outcome is classified
\* as a real failure exactly when the diagnostic stream contains "throw",
\* "Exception", "not found", or "Error" without "ErrorId"; an empty stream
\* and a stream where "Error" occurs only with "ErrorId" are no failures.
C18_RealFailureIffMarker ==
    \A r \in Slots :
        ExitedNormally(r) =>
            /\ ClassifiedRealFailure(r) <=> RealFailureMarkers(proc[r].stderr)
            /\ WentOnToCheck(r) <=> ~RealFailureMarkers(proc[r].stderr)
            /\ proc[r].stderr = <<>> => WentOnToCheck(r)
            /\ (/\ includes(proc[r].stderr, ERROR_ID)
                /\ ~includes(proc[r].stderr, THROW)
                /\ ~includes(proc[r].stderr, EXCEPTION)
                /\ ~includes(proc[r].stderr, NOT_FOUND)) => WentOnToCheck(r)

\* C18 witness: a stream that holds "Error" only with "ErrorId" was no
\* failure and the request succeeded
C18_Witness ==
    \E r \in Slots :
        /\ ExitedNormally(r)
        /\ includes(proc[r].stderr, ERROR)
        /\ includes(proc[r].stderr, ERROR_ID)
        /\ Succeeded(r)

\* the response as a function of the request, the exit status, the
\* diagnostic stream and the presence of the file: stdout is no argument
ResponseWithoutStdout(r) ==
    IF proc[r].code # 0
    THEN [text |-> FAILED_TO \o COMMAND_FAILED \o <<COMMAND, NEWLINE>> \o proc[r].stderr,
          isError |-> TRUE]
    ELSE IF RealFailureMarkers(proc[r].stderr)
    THEN [text |-> FAILED_TO \o proc[r].stderr, isError |-> TRUE]
    ELSE IF HostPath(r) \in files \/ HostPath(r) \in dirs
    THEN [text |-> SAVED_TO \o successPathOf(Args(r).folder, filename[r]),
          isError |-> FALSE]
    ELSE [text |-> FAILED_TO \o ENOENT_ACCESS \o <<"'">> \o HostPath(r) \o <<"'">>,
          isError |-> TRUE]

NoTitleMatches(T) == \A i \in 1..Len(windows) : ~TitleMatch(windows[i], T)

\* C20: a non-empty windowTitle T that matches no window ends the request
\* in a failure response whose message contains "No window found with title
\* containing: T", whatever exit status the process reports after raising
\* its error.
C20_NoTitleMatchReported ==
    \A r \in Slots :
        (/\ RanAndDone(r)
         /\ truthy(Args(r).windowTitle)
         /\ NoTitleMatches(Args(r).windowTitle.s)) =>
            /\ Responded(r)
            /\ outcome[r].isError
            /\ includes(ResponseText(r), NO_WINDOW_TITLE \o Args(r).windowTitle.s)

\* C20 witness: the title matched nothing, the process reported exit
\* status 0 all the same, and the failure names the title
C20_Witness ==
    \E r \in Slots :
        /\ RanAndDone(r)
        /\ truthy(Args(r).windowTitle)
        /\ NoTitleMatches(Args(r).windowTitle.s)
        /\ proc[r].code = 0
        /\ outcome[r].isError
        /\ includes(ResponseText(r), NO_WINDOW_TITLE \o Args(r).windowTitle.s)

\* the window search of the request matched nothing
SearchMatchedNothing(r) ==
    /\ RanAndDone(r)
    /\ psScript[r].branch = "window"
    /\ proc[r].run.thrown

\* "  - <title> (Process: <process>)", as the script lists a window
ListedWindow(w) ==
    <<" ", " ", "-", " ">> \o w.title \o <<" ", "(", "Process: ">>
        \o w.process \o <<")">>

\* C21 (as claimed): when a window or process search matches nothing, the
\* failure response holds the list of the available windows, title and
\* process name of each, besides the diagnostic text.
C21_FailureListsWindows ==
    \A r \in Slots :
        SearchMatchedNothing(r) =>
            /\ Responded(r)
            /\ outcome[r].isError
            /\ includes(ResponseText(r), proc[r].run.message)
            /\ \A i \in 1..Len(windows) :
                  includes(ResponseText(r), ListedWindow(windows[i]))

\* C22 (as claimed): every take_screenshot request invokes the executor
\* exactly once and makes exactly one existence check after it; no response
\* comes before the invocation has finished.
C22_OneCallOneCheckAlways ==
    \A r \in Slots :
        IsTakeScreenshot(r) =>
            /\ calls[r].exec <= 1
            /\ pc[r] = "done" => (calls[r].exec = 1 /\ calls[r].access = 1)
            /\ calls[r].access = 1 => proc[r].state = "exited"
            /\ Responded(r) => proc[r].state = "exited"

\* C22 (amended): a request invokes the executor at most once, exactly once
\* when the directory was created; it makes at most one existence check,
\* after the invocation has finished, exactly when the process exited with
\* status 0 and the diagnostic stream holds no real failure; no response
\* comes before the invocation has finished.
C22_OneCallAtMostOneCheck ==
    \A r \in Slots :
        IsTakeScreenshot(r) =>
            /\ calls[r].exec <= 1
            /\ calls[r].access <= 1
            /\ (pc[r] = "done" /\ outcome[r].kind # "rejected") => calls[r].exec = 1
            /\ outcome[r].kind = "rejected" => (calls[r].exec = 0 /\ calls[r].access = 0)
            /\ calls[r].access = 1 => (calls[r].exec = 1 /\ BelievedSuccess(r))
            /\ (pc[r] = "done" /\ BelievedSuccess(r)) => calls[r].access = 1
            /\ Responded(r) => proc[r].state = "exited"

\* C22 witness: a request that succeeded after one invocation and one check
C22_Witness ==
    \E r \in Slots :
        Succeeded(r) /\ calls[r].exec = 1 /\ calls[r].access = 1

\* the external process of the request has been launched
Launched(r) == IsTakeScreenshot(r) /\ calls[r].exec >= 1

\* C23: a request whose external process has been launched responds only
\* after the process has exited (so it never responds while the process
\* never exits: there is no timeout and no cancellation); once the process
\* has exited the request eventually responds, and a response, once
\* produced, is the only one.
C23_RespondsOnlyAfterExit ==
    /\ [](\A r \in Slots :
            (Launched(r) /\ Responded(r)) => proc[r].state = "exited")
    /\ (Launched(1) /\ proc[1].state = "exited")
          ~> (pc[1] = "done" /\ Responded(1))
    /\ [][\A r \in Slots :
            Responded(r) => (outcome'[r] = outcome[r] /\ pc'[r] = "done")]_vars

\* C23 witness: the process was launched, exited, and the request responded
C23_Witness ==
    \E r \in Slots :
        /\ Launched(r)
        /\ proc[r].ran
        /\ proc[r].state = "exited"
        /\ pc[r] = "done"
        /\ Responded(r)

\* everything the handler holds for one request
slotState(r) ==
    <<pc[r], request[r], filename[r], monitor[r], screenshotsDir[r],
      windowsPath[r], psScript[r], outputPath[r], proc[r], outcome[r], calls[r]>>

\* C24: requests share no state but the filesystem and are not serialized.
\* A step of one request leaves everything the handler holds for the other
\* request as it was (only dirs and files are common); nothing keeps two
\* requests with one destination apart: when both external runs are believed
\* successful and the file is at the common hostPath, both requests answer
\* with the same success response.  That a request runs from its arrival to
\* its response while another one waits for its process is the witness.
C24_RequestsIndependent ==
    /\ [][\A r \in Slots : \A q \in Slots \ {r} :
             slotState(r)' # slotState(r) => slotState(q)' = slotState(q)]_vars
    /\ [](\A r \in Slots : \A q \in Slots \ {r} :
             (/\ IsTakeScreenshot(r) /\ IsTakeScreenshot(q)
              /\ pc[r] = "done" /\ pc[q] = "done"
              /\ BelievedSuccess(r) /\ BelievedSuccess(q)
              /\ outputPath[r] = outputPath[q]
              /\ outputPath[r] \in files
              /\ request[r].arguments.folder = request[q].arguments.folder)
                => /\ Succeeded(r) /\ Succeeded(q)
                   /\ outcome[r].content = outcome[q].content)

\* request 2 arrived while request 1 was waiting for its process, had its own
\* process write the same destination, and answered with the success
\* response, and request 1 is still waiting
C24_Witness ==
    /\ inFlight(1)
    /\ calls[2].began = {1}
    /\ pc[2] = "done" /\ Succeeded(2)
    /\ proc[2].ran /\ proc[2].saved
    /\ psScript[1].savePath = psScript[2].savePath
    /\ proc[2].landing = outputPath[2]

\* the external run of request r wrote the file at the host path of r
WroteOwnFile(r) ==
    /\ proc[r].ran
    /\ proc[r].saved
    /\ proc[r].landing = outputPath[r]

\* C25 (as claimed): over any sequence of requests every success response
\* corresponds to an image file written by that same request's external
\* run, also when a file of an earlier request is at the same hostPath.
C25_SuccessMeansOwnFile ==
    \A r \in Slots : Succeeded(r) => WroteOwnFile(r)

\* the rectangle of a window has been padded for the capture
Captured == tpc = "captured"

\* max(0, x) as the claim words it
AtLeastZero(x) == IF x < 0 THEN 0 ELSE x

\* C26: for every matched window rectangle (Left, Top, Right, Bottom) the
\* captured rectangle has Left' = max(0, Left - 10), Top' = max(0, Top - 10),
\* Right' = Right + 10, Bottom' = Bottom + 10, width = Right' - Left' and
\* height = Bottom' - Top'; Left' and Top' are never negative.
C26_PaddedRectangle ==
    Captured =>
        /\ tOut.rect.Left = AtLeastZero(tIn.Left - 10)
        /\ tOut.rect.Top = AtLeastZero(tIn.Top - 10)
        /\ tOut.rect.Right = tIn.Right + 10
        /\ tOut.rect.Bottom = tIn.Bottom + 10
        /\ tOut.width = tOut.rect.Right - tOut.rect.Left
        /\ tOut.height = tOut.rect.Bottom - tOut.rect.Top
        /\ tOut.rect.Left >= 0
        /\ tOut.rect.Top >= 0

\* a window near the left edge and away from the top edge: the left side is
\* clamped, the top side is moved by the whole padding
C26_Witness ==
    /\ Captured
    /\ tIn.Left = 5 /\ tIn.Top = 15 /\ tIn.Right = 15 /\ tIn.Bottom = 15
    /\ tOut.rect.Left = 0 /\ tOut.rect.Top = 5
    /\ tOut.width = 25 /\ tOut.height = 20

\* what the v1.1.0 handler computes for the request of slot r
V110(r) == handlerV110(request[r].arguments, cwd)

\* C27: for every request without a folder parameter the v1.2.0 handler
\* resolves the same directory to create, the same host path for the
\* existence check, the same foreign path embedded in the script and the
\* same success message as the v1.1.0 handler does for the same filename
\* and working directory.
C27_DefaultFolderAsV110 ==
    \A r \in Slots :
        (IsTakeScreenshot(r) /\ request[r].arguments.folder = undefined) =>
            /\ screenshotsDir[r] = V110(r).screenshotsDir
            /\ windowsPath[r] = V110(r).windowsPath
            /\ ExecutorInvoked(r) =>
                   /\ psScript[r].savePath = savePathLiteral(V110(r).windowsPath)
                   /\ V110(r).screenshotsDir \in dirs
            /\ pc[r] = "access" => outputPath[r] = V110(r).outputPath
            /\ outcome[r].accessed # "no" => outputPath[r] = V110(r).outputPath
            /\ Succeeded(r) =>
                   outcome[r].content =
                       <<[type |-> "text", text |-> SAVED_TO \o V110(r).successPath]>>

\* a request without folder on a mounted drive was answered with success
C27_Witness ==
    /\ IsTakeScreenshot(1)
    /\ request[1].arguments.folder = undefined
    /\ request[1].arguments.filename = undefined
    /\ cwd = <<"/","m","n","t","/","c","/","p">>
    /\ windowsPath[1] = <<"c",":","\\","p","\\">> \o SCREENSHOTS \o <<"\\">> \o SCREENSHOT_PNG
    /\ outputPath[1] = <<"/","m","n","t","/","c","/","p","/">> \o SCREENSHOTS \o <<"/">> \o SCREENSHOT_PNG
    /\ pc[1] = "done"
    /\ Succeeded(1)

\* C28 (as claimed): for every accepted folder form and every filename the
\* foreign path embedded in the script and the host path of the existence
\* check denote the same file under the mounted-drive convention: the file
\* the engine saves for the literal of the script is the file at hostPath.
C28_SavedFileIsCheckedFile ==
    \A r \in Slots :
        (IsTakeScreenshot(r) /\ truthy(request[r].arguments.folder)
         /\ ExecutorInvoked(r))
            => landingPath(psScript[r].savePath, cwd) = HostPath(r)

\* the call of the executor failed: the process could not be started or it
\* exited with a status other than 0
ExecutorFailed(r) == proc[r].state = "exited" /\ proc[r].code # 0

\* C29: if the external executor call fails (the process cannot be launched
\* or it exits with a non-zero status), the request ends in a failure
\* response whatever the diagnostic stream contains, also when it is empty
\* or holds only benign ErrorId-tagged noise; the marker-based classifier
\* and the file-existence check are not run for that request: the message
\* is that of the failed command, not the diagnostic stream on its own, and
\* fs.access is never called.
C29_ExecutorFailureIsFailure ==
    \A r \in Slots :
        (IsTakeScreenshot(r) /\ ExecutorFailed(r)) =>
            /\ pc[r] \in {"exec", "done"}
            /\ calls[r].access = 0
            /\ outputPath[r] = <<>>
            /\ pc[r] = "done" =>
                   /\ Responded(r)
                   /\ outcome[r].isError
                   /\ outcome[r].accessed = "no"
                   /\ outcome[r].error =
                          COMMAND_FAILED \o <<COMMAND, NEWLINE>> \o proc[r].stderr
                   /\ outcome[r].content =
                          <<[type |-> "text",
                             text |-> FAILED_TO \o COMMAND_FAILED
                                        \o <<COMMAND, NEWLINE>> \o proc[r].stderr]>>

\* the script ran and saved the file, the stream holds only the benign
\* ErrorId-tagged noise, the status is not 0: the answer is a failure
C29_Witness ==
    /\ IsTakeScreenshot(1)
    /\ pc[1] = "done"
    /\ proc[1].ran /\ proc[1].saved /\ proc[1].code # 0
    /\ proc[1].stderr = ERRORID_NOISE
    /\ ~hasRealError(proc[1].stderr)
    /\ proc[1].landing \in files
    /\ outcome[1].isError

\* C30 (as claimed): for every matched window rectangle with Right > Left and
\* Bottom > Top, at any position of the virtual desktop including negative
\* coordinates on a monitor left of or above the primary one, the captured
\* rectangle has width > 0 and height > 0 and contains the whole window
\* rectangle.
C30_CaptureContainsWindow ==
    (Captured /\ tIn.Right > tIn.Left /\ tIn.Bottom > tIn.Top) =>
        /\ tOut.width > 0
        /\ tOut.height > 0
        /\ tOut.rect.Left <= tIn.Left
        /\ tOut.rect.Top <= tIn.Top
        /\ tOut.rect.Right >= tIn.Right
        /\ tOut.rect.Bottom >= tIn.Bottom

====
